---------------------------- MODULE Spec2Model ----------------------------
(***************************************************************************)
(* The write-ahead log of terminus-store (src/storage/directory/wal.rs):   *)
(* the record codec, the framed decoder, the seekable navigation over the  *)
(* log file and the exclusive writer.  The log file is a sequence of       *)
(* bytes; a handle is the file together with a cursor.                     *)
(***************************************************************************)
EXTENDS Integers, Sequences, FiniteSets, TLC

(***************************************************************************)
(* Bounds of the model.                                                    *)
(***************************************************************************)
\* largest identifier handed to append_labelset / append_checkpoint
MaxId == 2
\* largest number of records handed to the encoder
MaxSent == 1
MaxStack == 2
MaxCount == 3
MaxPieces == 2
MaxStopAt == 2
MaxSessions == 2

Ids == 0..MaxId

\* labels are UTF-8 byte strings; "x" and "y"
LabelX == << 120 >>
LabelY == << 121 >>

\* Layer addresses, [u32;5].  A layer address is twenty arbitrary bytes, so
\* bytes inside one can read as a frame.  In the label set record
\* 1 : {x -> LayerA1, y -> LayerA2} the bytes 14..27 of the frame are the
\* frame of an empty label set with identifier 255193 (the checksum of that
\* body is 01 79 15 dc: the length and the label of the second entry and
\* the first two bytes of its layer).  In 1 : {x -> LayerB1, y -> LayerB2}
\* the bytes 13..25 are the frame of checkpoint 200542 (checksum 28 49 01 79)
\* and the bytes 26..38 the frame of checkpoint 2 (checksum cf 4a be 30).
LayerA1 == << 0, 0, 0, 255193, 5 >>
LayerA2 == << 366739456, 0, 0, 0, 0 >>
LayerB1 == << 0, 0, 65539, 257818624, 272457 >>
LayerB2 == << 16777216, 33554432, 80693950, 805306368, 0 >>

\* the maps handed to append_labelset, as sets of (label, layer) bindings
LabelMaps ==
    { {},
      { << LabelX, LayerA1 >> },
      { << LabelX, LayerA1 >>, << LabelY, LayerA2 >> },
      { << LabelX, LayerB1 >>, << LabelY, LayerB2 >> } }

Byte == 0..255

(***************************************************************************)
(* Integers on the wire.  A u32 that is only ever moved or compared for    *)
(* equality is kept as its four big-endian bytes.                          *)
(***************************************************************************)
\* BigEndian::write_u32
WriteU32(n) ==
    << (n \div 16777216) % 256, (n \div 65536) % 256, (n \div 256) % 256, n % 256 >>

\* BigEndian::read_u32 of a length field.  The value is only compared with
\* file offsets and buffer lengths, all far below 2^30; a field of 2^30 or
\* more is read as 2^30 so that the arithmetic stays inside TLC's integers.
ReadU32(b) ==
    IF b[1] >= 64 THEN 1073741824
    ELSE b[1] * 16777216 + b[2] * 65536 + b[3] * 256 + b[4]

RECURSIVE XorBits(_, _, _)
XorBits(a, b, n) ==
    IF n = 0 THEN 0
    ELSE ((a + b) % 2) + 2 * XorBits(a \div 2, b \div 2, n - 1)

Xor8(a, b) == XorBits(a, b, 8)
Xor16(a, b) == Xor8(a \div 256, b \div 256) * 256 + Xor8(a % 256, b % 256)

(***************************************************************************)
(* crc32::checksum_ieee: the reflected CRC-32 of IEEE 802.3, polynomial    *)
(* 0xEDB88320, initial value and final xor 0xFFFFFFFF.  The 32-bit         *)
(* register is the pair <<high 16 bits, low 16 bits>>.                     *)
(***************************************************************************)
RECURSIVE CrcRounds(_, _)
CrcRounds(c, n) ==
    IF n = 0 THEN c
    ELSE LET hi == c[1] \div 2
             lo == (c[2] \div 2) + (c[1] % 2) * 32768
         IN  IF c[2] % 2 = 1
             THEN CrcRounds(<<Xor16(hi, 60856), Xor16(lo, 33568)>>, n - 1)
             ELSE CrcRounds(<<hi, lo>>, n - 1)

Crc32Table == [i \in Byte |-> CrcRounds(<<0, i>>, 8)]

\* one byte into the register, by the table
CrcByte(c, b) ==
    LET t  == Crc32Table[Xor8(c[2] % 256, b)]
        hi == c[1] \div 256
        lo == (c[1] % 256) * 256 + (c[2] \div 256)
    IN  <<Xor16(t[1], hi), Xor16(t[2], lo)>>

RECURSIVE CrcUpdate(_, _, _)
\* (the test on the new register only makes TLC compute it before it goes on)
CrcUpdate(c, data, i) ==
    IF i > Len(data) THEN c
    ELSE LET n == CrcByte(c, data[i])
         IN  IF n[1] >= 0 THEN CrcUpdate(n, data, i + 1) ELSE n

\* the checksum as the four bytes BigEndian::write_u32 gives for it
ChecksumIeee(data) ==
    LET c  == CrcUpdate(<<65535, 65535>>, data, 1)
        hi == 65535 - c[1]
        lo == 65535 - c[2]
    IN  << hi \div 256, hi % 256, lo \div 256, lo % 256 >>

Take(s, n) == SubSeq(s, 1, n)
Drop(s, n) == SubSeq(s, n + 1, Len(s))

(***************************************************************************)
(* Records.  A record value of the API is [kind, id, entries]; entries is  *)
(* the vector of (label, layer) pairs in the iteration order of the map.   *)
(***************************************************************************)
\* LabelSetEntry::new
LabelSetEntryNew(label, layer) ==
    << Len(label) >> \o label
        \o WriteU32(layer[1]) \o WriteU32(layer[2]) \o WriteU32(layer[3])
        \o WriteU32(layer[4]) \o WriteU32(layer[5])

RECURSIVE ConcatEntries(_)
ConcatEntries(es) ==
    IF es = << >> THEN << >>
    ELSE LabelSetEntryNew(es[1][1], es[1][2]) \o ConcatEntries(Tail(es))

\* LabelSetRecord::new / new_bytes: entry count, entries, identifier
LabelSetRecordNew(index, entries) ==
    << Len(entries) >> \o ConcatEntries(entries) \o WriteU32(index)

\* CheckpointRecord::new
CheckpointRecordNew(index) == WriteU32(index)

\* WalRecord::type_num
TypeNum(kind) == IF kind = "LabelSet" THEN 0 ELSE 1

\* WalRecord::data of the record value r
RecordData(r) ==
    IF r.kind = "LabelSet" THEN LabelSetRecordNew(r.id, r.entries)
    ELSE CheckpointRecordNew(r.id)

\* WalRecord::checksum: the CRC of data(), which holds no type byte
RecordChecksum(data) == ChecksumIeee(data)

\* AnnotatedWalRecord::new / new_bytes: type, data, length of data, checksum
AnnotatedWalRecordNew(kind, data) ==
    << TypeNum(kind) >> \o data \o WriteU32(Len(data)) \o RecordChecksum(data)

\* WalFileEncoder::encode appends the annotated record's bytes
Encode(r) == AnnotatedWalRecordNew(r.kind, RecordData(r))

(***************************************************************************)
(* std::str::from_utf8                                                     *)
(***************************************************************************)
RECURSIVE IsUtf8(_)
IsUtf8(s) ==
    IF s = << >> THEN TRUE
    ELSE LET b == s[1]
             Cont(i) == i <= Len(s) /\ s[i] \in 128..191
             In(i, lo, hi) == i <= Len(s) /\ s[i] \in lo..hi
         IN  IF b < 128 THEN IsUtf8(Tail(s))
             ELSE IF b \in 194..223 THEN Cont(2) /\ IsUtf8(Drop(s, 2))
             ELSE IF b = 224 THEN In(2, 160, 191) /\ Cont(3) /\ IsUtf8(Drop(s, 3))
             ELSE IF b = 237 THEN In(2, 128, 159) /\ Cont(3) /\ IsUtf8(Drop(s, 3))
             ELSE IF b \in 225..239 THEN Cont(2) /\ Cont(3) /\ IsUtf8(Drop(s, 3))
             ELSE IF b = 240
                  THEN In(2, 144, 191) /\ Cont(3) /\ Cont(4) /\ IsUtf8(Drop(s, 4))
             ELSE IF b \in 241..243
                  THEN Cont(2) /\ Cont(3) /\ Cont(4) /\ IsUtf8(Drop(s, 4))
             ELSE IF b = 244
                  THEN In(2, 128, 143) /\ Cont(3) /\ Cont(4) /\ IsUtf8(Drop(s, 4))
             ELSE FALSE

\* LabelSetEntry::try_split_from_bytes followed by from_bytes: the entry is
\* split off the buffer before its label is checked
EntryTrySplit(data) ==
    IF Len(data) = 0 THEN [res |-> "IncompleteRecord", entry |-> << >>, rest |-> data]
    ELSE LET entry_len == data[1] + 21
         IN  IF Len(data) < entry_len
             THEN [res |-> "IncompleteRecord", entry |-> << >>, rest |-> data]
             ELSE LET entry == Take(data, entry_len)
                  IN  [res   |-> IF IsUtf8(SubSeq(entry, 2, data[1] + 1))
                                 THEN "Ok" ELSE "LabelNotUtf8",
                       entry |-> entry,
                       rest  |-> Drop(data, entry_len)]

(***************************************************************************)
(* WalFileDecoder.  A decoder state is [tag, buf, n, lenb]: buf the bytes  *)
(* read so far (type byte first), n the entries still to read, lenb the    *)
(* length field.  A decode call answers [res, err, val, st, rest]: res is  *)
(* "None", "Some", "Err" or "Panic", err the error, val the bytes of the   *)
(* emitted record, st the decoder afterwards and rest what is left of the  *)
(* caller's buffer.                                                        *)
(***************************************************************************)
DecoderState(tag, buf, n, lenb) == [tag |-> tag, buf |-> buf, n |-> n, lenb |-> lenb]
DecoderStart   == DecoderState("Start", << >>, 0, << >>)
DecoderInvalid == DecoderState("Invalid", << >>, 0, << >>)

\* a break that leaves self the Invalid it was swapped for
DecodeBreakInvalid(st, bytes) ==
    [res |-> "None", err |-> "", val |-> << >>, st |-> DecoderInvalid, rest |-> bytes]

\* break out of the loop: the state is swapped back into self
DecodeBreak(st, bytes) ==
    [res |-> "None", err |-> "", val |-> << >>, st |-> st, rest |-> bytes]
\* return Err(e): self keeps the Invalid it was swapped for
DecodeErr(e, bytes) ==
    [res |-> "Err", err |-> e, val |-> << >>, st |-> DecoderInvalid, rest |-> bytes]

\* the length test of ReadRecordChecksum: the length field against the
\* bytes read so far, which begin with the type byte
DecodeLengthOk(lenb, record_bytes) == ReadU32(lenb) = Len(record_bytes)

\* the checksum test of ReadRecordChecksum: over the type byte and the body
DecodeChecksumOk(crcb, record_bytes) == crcb = ChecksumIeee(record_bytes)

RECURSIVE DecodeLoop(_, _)
DecodeLoop(st, bytes) ==
    CASE st.tag = "Invalid" ->
           [res |-> "Panic", err |-> "encountered self in invalid state", val |-> << >>,
            st |-> DecoderInvalid, rest |-> bytes]
      [] st.tag = "Start" ->
           IF Len(bytes) = 0 THEN DecodeBreak(st, bytes)
           ELSE IF bytes[1] = 0
                THEN DecodeLoop(DecoderState("LabelSetReadNumEntries", Take(bytes, 1), 0, << >>),
                                Drop(bytes, 1))
           ELSE IF bytes[1] = 1
                THEN DecodeLoop(DecoderState("CheckpointReadIdentifier", Take(bytes, 1), 0, << >>),
                                Drop(bytes, 1))
           ELSE DecodeErr("UnknownRecordType", bytes)
      [] st.tag = "LabelSetReadNumEntries" ->
           IF Len(bytes) = 0 THEN DecodeBreak(st, bytes)
           ELSE IF bytes[1] = 0 THEN DecodeErr("ZeroLabels", bytes)
           ELSE IF bytes[1] > 100 THEN DecodeErr("TooManyLabels", bytes)
           ELSE DecodeLoop(DecoderState("LabelSetReadEntry", st.buf \o Take(bytes, 1),
                                        bytes[1], << >>),
                           Drop(bytes, 1))
      [] st.tag = "LabelSetReadEntry" ->
           LET e == EntryTrySplit(bytes)
           IN  IF e.res = "Ok"
               THEN DecodeLoop(DecoderState(IF st.n - 1 = 0 THEN "LabelSetReadIdentifier"
                                                            ELSE "LabelSetReadEntry",
                                            st.buf \o e.entry, st.n - 1, << >>),
                               e.rest)
               ELSE IF e.res = "IncompleteRecord" THEN DecodeBreak(st, bytes)
               ELSE DecodeErr(e.res, e.rest)
      [] st.tag \in {"LabelSetReadIdentifier", "CheckpointReadIdentifier"} ->
           IF Len(bytes) < 4 THEN DecodeBreak(st, bytes)
           ELSE DecodeLoop(DecoderState("ReadRecordLength", st.buf \o Take(bytes, 4), 0, << >>),
                           Drop(bytes, 4))
      [] st.tag = "ReadRecordLength" ->
           IF Len(bytes) < 4 THEN DecodeBreak(st, bytes)
           ELSE DecodeLoop(DecoderState("ReadRecordChecksum", st.buf, 0, Take(bytes, 4)),
                           Drop(bytes, 4))
      [] st.tag = "ReadRecordChecksum" ->
           IF Len(bytes) < 4 THEN DecodeBreak(st, bytes)
           ELSE IF ~DecodeLengthOk(st.lenb, st.buf)
                THEN DecodeErr("InvalidRecordLength", Drop(bytes, 4))
           ELSE IF ~DecodeChecksumOk(Take(bytes, 4), st.buf)
                THEN DecodeErr("CrcFailure", Drop(bytes, 4))
           ELSE [res |-> "Some", err |-> "", val |-> Tail(st.buf), st |-> DecoderStart,
                 rest |-> Drop(bytes, 4)]

\* WalFileDecoder::decode
Decode(st, bytes) == DecodeLoop(st, bytes)

(***************************************************************************)
(* Reading a record back out of an AnnotatedWalRecord.                     *)
(***************************************************************************)
RECURSIVE SkipEntries(_, _)
\* the loop of LabelSetRecord::try_split_from_bytes over its entries
SkipEntries(data, n) ==
    IF n = 0 THEN [res |-> "Ok", rest |-> data]
    ELSE LET e == EntryTrySplit(data)
         IN  IF e.res = "Ok" THEN SkipEntries(e.rest, n - 1)
             ELSE [res |-> e.res, rest |-> e.rest]

\* LabelSetRecord::try_split_from_bytes: "Ok" and what is left, or the error
LabelSetTrySplit(data) ==
    IF Len(data) = 0 THEN [res |-> "IncompleteRecord", rest |-> data]
    ELSE IF data[1] > 100 THEN [res |-> "TooManyLabels", rest |-> data]
    ELSE LET s == SkipEntries(Drop(data, 1), data[1])
         IN  IF s.res # "Ok" THEN s
             ELSE IF Len(s.rest) < 4 THEN [res |-> "IncompleteRecord", rest |-> s.rest]
             ELSE [res |-> "Ok", rest |-> Drop(s.rest, 4)]

\* LabelSetRecord::from_bytes: unwraps the split and wants nothing left over
LabelSetFromBytesOk(data) ==
    LET s == LabelSetTrySplit(data) IN s.res = "Ok" /\ Len(s.rest) = 0

\* CheckpointRecord::from_bytes
CheckpointFromBytesOk(data) == Len(data) = 4

\* AnnotatedWalRecord::record_bytes: drop the type byte and the last eight
\* bytes (taken only when there are eight to drop, see RecordOf)
RecordBytes(data) ==
    LET r == Drop(data, 1) IN Take(r, Len(r) - 8)

\* AnnotatedWalRecord::record on the bytes the annotated record holds.  With
\* fewer than nine bytes, data[0] is out of bounds or len()-8 underflows in
\* record_bytes: a panic where overflow is checked; where it wraps, truncate
\* leaves the bytes whole, and of the records decode delivers only the four
\* bytes of a checkpoint are that short, on which from_bytes panics.
RecordOf(data) ==
    IF Len(data) < 9 THEN [kind |-> "Panic", data |-> << >>]
    ELSE LET rb == RecordBytes(data)
         IN  IF data[1] = 0 /\ LabelSetFromBytesOk(rb)
                 THEN [kind |-> "LabelSet", data |-> rb]
             ELSE IF data[1] = 1 /\ CheckpointFromBytesOk(rb)
                 THEN [kind |-> "Checkpoint", data |-> rb]
             ELSE [kind |-> "Panic", data |-> << >>]

\* LabelSetRecord::identifier, CheckpointRecord::identifier
Identifier(data) == ReadU32(SubSeq(data, Len(data) - 3, Len(data)))

\* LabelSetEntry::label and LabelSetEntry::layer of one entry's bytes
EntryLabel(e) == SubSeq(e, 2, e[1] + 1)
EntryLayer(e) ==
    [k \in 1..5 |-> ReadU32(SubSeq(e, e[1] + 2 + 4 * (k - 1), e[1] + 1 + 4 * k))]

RECURSIVE SplitEntries(_, _)
SplitEntries(data, n) ==
    IF n = 0 THEN << >>
    ELSE LET e == EntryTrySplit(data)
         IN  << <<EntryLabel(e.entry), EntryLayer(e.entry)>> >> \o SplitEntries(e.rest, n - 1)

\* LabelSetRecord::entries as (label, layer) pairs
LabelSetEntries(data) == SplitEntries(Drop(data, 1), data[1])

(***************************************************************************)
(* The file under a handle: its bytes and the handle's cursor.  Reads and  *)
(* writes happen at the cursor and move it; truncate cuts at the cursor.   *)
(***************************************************************************)
FileRead(f, pos, n) == SubSeq(f, pos + 1, pos + n)
FileWrite(f, pos, data) == Take(f, pos) \o data \o Drop(f, pos + Len(data))
FileTruncate(f, pos) == Take(f, pos)

(***************************************************************************)
(* ReadableWalFile.  Every operation takes the file bytes f and the cursor *)
(* pos and answers a record with res ("Ok", "Err", "Panic"), err, handle   *)
(* (TRUE when the error comes with Some(handle)) and the cursor afterwards.*)
(***************************************************************************)
NoRecord == [some |-> FALSE, data |-> << >>]
SomeRecord(data) == [some |-> TRUE, data |-> data]

NavAnswer(res, err, handle, pos, rec) ==
    [res |-> res, err |-> err, handle |-> handle, pos |-> pos, rec |-> rec]

\* what next_record answers once the framed reader has the decoder's last
\* word; read is the number of bytes the reader took from the file
FramedAnswer(f, pos, read, last) ==
    IF last.res = "Some" THEN NavAnswer("Ok", "", TRUE, pos + read, SomeRecord(last.val))
    ELSE IF last.res = "Err" THEN NavAnswer("Err", last.err, TRUE, pos + read, NoRecord)
    ELSE IF last.res = "Panic" THEN NavAnswer("Panic", last.err, FALSE, pos + read, NoRecord)
    ELSE IF Len(last.rest) = 0 THEN NavAnswer("Ok", "", TRUE, pos + read, NoRecord)
    ELSE NavAnswer("Err", "Io", TRUE, pos + read, NoRecord)

\* the framed reader after its first decode call d: a frame or an error ends
\* the poll; on "need more" it reads again, meets the end of the file and
\* ends with decode_eof (None when the buffer is empty, else an I/O error)
FramedPoll(f, pos, read, d) ==
    IF read = 0 \/ d.res # "None" THEN FramedAnswer(f, pos, read, d)
    ELSE FramedAnswer(f, pos, read, Decode(d.st, d.rest))

\* next_record: one poll of FramedRead over the file with a fresh decoder.
\* The reader fills its buffer with one read from the cursor; the files here
\* are shorter than its 8 KiB buffer, so that read reaches the end of file.
NextRecord(f, pos) ==
    FramedPoll(f, pos, Len(f) - pos, Decode(DecoderStart, Drop(f, pos)))

\* the offset seek_previous seeks to, from the offset of the length field it
\* has just read (the cursor after seek(Current(-8))) and the length read
SeekPreviousTarget(pos, len) == pos - len - 8

\* seek_previous after seek(Current(-8)) has put the cursor on pos and
\* read_exact has read the four bytes of len there
SeekPreviousLen(pos, len) ==
    IF pos < len + 8
        THEN [res |-> "Err", err |-> "IncompleteRecord", handle |-> TRUE, pos |-> pos + 4]
    ELSE [res |-> "Ok", err |-> "", handle |-> TRUE, pos |-> SeekPreviousTarget(pos, len)]

\* seek_previous
SeekPrevious(f, start) ==
    IF start = 0
        THEN [res |-> "Ok", err |-> "", handle |-> TRUE, pos |-> 0]
    ELSE IF start < 8
        THEN [res |-> "Err", err |-> "IncompleteRecord", handle |-> TRUE, pos |-> start]
    ELSE IF Len(f) < start - 4
        THEN [res |-> "Err", err |-> "Io", handle |-> FALSE, pos |-> Len(f)]
    ELSE SeekPreviousLen(start - 8, ReadU32(FileRead(f, start - 8, 4)))

\* peek_previous once next_record has answered n: the cursor must be back
\* on current
PeekCheck(current, n) ==
    IF n.res = "Ok" /\ n.rec.some /\ n.pos # current
        THEN NavAnswer("Err", "InvalidRecordLength", TRUE, n.pos, NoRecord)
    ELSE n

\* peek_previous once seek_previous has answered s
PeekAfterSeek(f, current, s) ==
    IF s.res # "Ok" THEN NavAnswer(s.res, s.err, s.handle, s.pos, NoRecord)
    ELSE PeekCheck(current, NextRecord(f, s.pos))

\* peek_previous
PeekPrevious(f, current) ==
    IF current = 0 THEN NavAnswer("Ok", "", TRUE, 0, NoRecord)
    ELSE PeekAfterSeek(f, current, SeekPrevious(f, current))

\* previous once peek_previous has answered p and seek_previous s
PreviousSeek(p, s) ==
    IF s.res # "Ok" THEN NavAnswer(s.res, s.err, s.handle, s.pos, NoRecord)
    ELSE NavAnswer("Ok", "", TRUE, s.pos, p.rec)

PreviousAfterPeek(f, p) ==
    IF p.res # "Ok" THEN p ELSE PreviousSeek(p, SeekPrevious(f, p.pos))

\* previous
Previous(f, current) == PreviousAfterPeek(f, PeekPrevious(f, current))

\* peek_record without the seek back to start
PeekRecordStays(start, n) == n

\* peek_record once next_record has answered n: the handle seeks back to
\* start, with the record or with the error
PeekRecordAfter(start, n) ==
    IF n.res = "Panic" THEN n
    ELSE NavAnswer(n.res, n.err, TRUE, start, n.rec)

\* peek_record
PeekRecord(f, start) == PeekRecordAfter(start, NextRecord(f, start))

(***************************************************************************)
(* The visitors of the reverse scans.  A visitor is named by its kind and  *)
(* carries acc = [checkpoint, discovered, labels]: the checkpoint cell     *)
(* ([some, id]), the discovered map (a set of [label, id, layer]) and the  *)
(* labels still wanted.  It answers [out, val, acc]: out is "None" (go     *)
(* on), "Some" (stop with val) or "Panic".                                 *)
(***************************************************************************)
NoCheckpoint == [some |-> FALSE, id |-> 0]
VisitorInit(labels) ==
    [checkpoint |-> NoCheckpoint, discovered |-> {}, labels |-> labels]

Continue(acc) == [out |-> "None", val |-> 0, acc |-> acc]
Stop(v, acc)  == [out |-> "Some", val |-> v, acc |-> acc]
VisitPanic(acc) == [out |-> "Panic", val |-> 0, acc |-> acc]

HasLabel(discovered, label) == \E d \in discovered : d.label = label

RECURSIVE InsertAll(_, _, _)
\* the loop over record.entries() of get_all_labels_since_last_checkpoint
InsertAll(acc, id, entries) ==
    IF entries = << >> THEN acc
    ELSE LET e == entries[1]
             a == IF HasLabel(acc.discovered, e[1]) THEN acc
                  ELSE [acc EXCEPT !.discovered =
                            @ \cup {[label |-> e[1], id |-> id, layer |-> e[2]]}]
         IN  InsertAll(a, id, Tail(entries))

RECURSIVE InsertWanted(_, _, _)
\* the loop over record.entries() of get_labels_since_last_checkpoint
InsertWanted(acc, id, entries) ==
    IF entries = << >> THEN acc
    ELSE LET e == entries[1]
             a == IF e[1] \in acc.labels
                  THEN [acc EXCEPT !.labels = @ \ {e[1]},
                                   !.discovered = {d \in @ : d.label # e[1]}
                                        \cup {[label |-> e[1], id |-> id, layer |-> e[2]]}]
                  ELSE acc
         IN  InsertWanted(a, id, Tail(entries))

\* the closure of get_last_checkpoint, r being record()
VisitLastCheckpointRecord(acc, r) ==
    IF r.kind = "Panic" THEN VisitPanic(acc)
    ELSE IF r.kind = "Checkpoint" THEN Stop(Identifier(r.data), acc)
    ELSE Continue(acc)

VisitLastCheckpoint(acc, rec) ==
    IF ~rec.some THEN Stop(0, acc)
    ELSE VisitLastCheckpointRecord(acc, RecordOf(rec.data))

\* the closure of get_last_id, r being record()
VisitLastIdRecord(acc, r) ==
    IF r.kind = "Panic" THEN VisitPanic(acc)
    ELSE IF r.kind = "LabelSet" THEN Stop(Identifier(r.data), acc)
    ELSE Continue(acc)

VisitLastId(acc, rec) ==
    IF ~rec.some THEN Continue(acc)
    ELSE VisitLastIdRecord(acc, RecordOf(rec.data))

\* the closure f of get_all_labels_since_last_checkpoint (all = TRUE) and of
\* get_labels_since_last_checkpoint (all = FALSE), r being record()
VisitLabelsRecord(all, acc, r) ==
    IF r.kind = "Panic" THEN VisitPanic(acc)
    ELSE IF r.kind = "Checkpoint"
        THEN Continue(IF acc.checkpoint.some THEN acc
                      ELSE [acc EXCEPT !.checkpoint =
                                [some |-> TRUE, id |-> Identifier(r.data)]])
    ELSE IF acc.checkpoint.some /\ acc.checkpoint.id = Identifier(r.data)
        THEN Stop(Identifier(r.data), acc)
    ELSE IF all
        THEN Continue(InsertAll(acc, Identifier(r.data), LabelSetEntries(r.data)))
    ELSE Continue(InsertWanted(acc, Identifier(r.data), LabelSetEntries(r.data)))

\* VisitLabels with the two copies of the closure out of step: the one of
\* get_labels_since_last_checkpoint answers 1 where no checkpoint was seen
VisitLabelsOutOfStep(all, acc, rec) ==
    IF ~rec.some
        THEN Stop(IF acc.checkpoint.some THEN acc.checkpoint.id
                  ELSE IF all THEN 0 ELSE 1, acc)
    ELSE VisitLabelsRecord(all, acc, RecordOf(rec.data))

VisitLabels(all, acc, rec) ==
    IF ~rec.some
        THEN Stop(IF acc.checkpoint.some THEN acc.checkpoint.id ELSE 0, acc)
    ELSE VisitLabelsRecord(all, acc, RecordOf(rec.data))

\* a closure that keeps what it is called with and answers Some(t), t the
\* number of the call, at call stopAt (never when stopAt = 0)
CountingInit(stopAt) == [calls |-> << >>, stopAt |-> stopAt]
VisitCounting(acc, rec) ==
    IF Len(acc.calls) + 1 = acc.stopAt
        THEN Stop(acc.stopAt, [acc EXCEPT !.calls = Append(@, rec)])
    ELSE Continue([acc EXCEPT !.calls = Append(@, rec)])

Visit(kind, acc, rec) ==
    CASE kind = "last_checkpoint" -> VisitLastCheckpoint(acc, rec)
      [] kind = "counting"        -> VisitCounting(acc, rec)
      [] kind = "last_id"         -> VisitLastId(acc, rec)
      [] kind = "all_labels"      -> VisitLabels(TRUE, acc, rec)
      [] kind = "labels"          -> VisitLabels(FALSE, acc, rec)

\* what a walk answers: [res, err, handle, pos, some, val, acc], some and val
\* being the Option<T> it ends with
WalkAnswer(res, err, handle, pos, some, val, acc) ==
    [res |-> res, err |-> err, handle |-> handle, pos |-> pos,
     some |-> some, val |-> val, acc |-> acc]

RECURSIVE WalkBackwards(_, _, _, _)

\* the match of walk_backwards on (record.is_some(), call(record)), p being
\* the answer of previous and v that of the visitor
WalkMatch(f, kind, p, v) ==
    IF v.out = "Panic" THEN WalkAnswer("Panic", "record", FALSE, p.pos, FALSE, 0, v.acc)
    ELSE IF v.out = "Some" THEN WalkAnswer("Ok", "", TRUE, p.pos, TRUE, v.val, v.acc)
    ELSE IF p.rec.some THEN WalkBackwards(f, p.pos, kind, v.acc)
    ELSE WalkAnswer("Ok", "", TRUE, p.pos, FALSE, 0, v.acc)

WalkAfterPrevious(f, kind, acc, p) ==
    IF p.res # "Ok" THEN WalkAnswer(p.res, p.err, p.handle, p.pos, FALSE, 0, acc)
    ELSE WalkMatch(f, kind, p, Visit(kind, acc, p.rec))

\* walk_backwards
WalkBackwards(f, pos, kind, acc) ==
    WalkAfterPrevious(f, kind, acc, Previous(f, pos))

IdAnswer(res, err, handle, pos, id) ==
    [res |-> res, err |-> err, handle |-> handle, pos |-> pos, id |-> id]

\* the id.unwrap() of get_last_checkpoint on the answer w of the walk
LastCheckpointOf(w) ==
    IF w.res = "Ok" /\ ~w.some THEN IdAnswer("Panic", "unwrap", FALSE, w.pos, 0)
    ELSE IdAnswer(w.res, w.err, w.handle, w.pos, w.val)

\* get_last_checkpoint leaving the cursor on the end of the file
GetLastCheckpointToEnd(f, pos) ==
    [LastCheckpointOf(WalkBackwards(f, pos, "last_checkpoint", VisitorInit({})))
         EXCEPT !.pos = Len(f)]

\* get_last_checkpoint: [res, err, handle, pos, id]
GetLastCheckpoint(f, pos) ==
    LastCheckpointOf(WalkBackwards(f, pos, "last_checkpoint", VisitorInit({})))

\* the match of get_last_id on the answer w of the walk
LastIdOf(f, w) ==
    IF w.res = "Ok" /\ ~w.some THEN GetLastCheckpoint(f, w.pos)
    ELSE IdAnswer(w.res, w.err, w.handle, w.pos, w.val)

\* get_last_id: [res, err, handle, pos, id]
GetLastId(f, pos) == LastIdOf(f, WalkBackwards(f, pos, "last_id", VisitorInit({})))

\* what the two label queries hand back: the closure moves the cell
\* `discovered` into itself and fills that one; the map returned is `cloned`,
\* the copy AtomicRefCell::clone made of the cell's contents before the walk
LabelsAnswer(cloned, w) ==
    [res |-> w.res, err |-> w.err, handle |-> w.handle, pos |-> w.pos,
     map |-> cloned, checkpoint_id |-> IF w.some THEN w.val ELSE 0]

\* get_all_labels_since_last_checkpoint and get_labels_since_last_checkpoint:
\* [res, err, handle, pos, map, checkpoint_id]
GetLabelsSince(f, pos, kind, labels) ==
    LabelsAnswer(VisitorInit(labels).discovered,
                 WalkBackwards(f, pos, kind, VisitorInit(labels)))

GetAllLabelsSinceLastCheckpoint(f, pos) == GetLabelsSince(f, pos, "all_labels", {})
GetLabelsSinceLastCheckpoint(f, pos, labels) == GetLabelsSince(f, pos, "labels", labels)

(***************************************************************************)
(* ExclusiveWalFile.  Each operation consumes the handle; it answers       *)
(* [res, err, file, frame]: res is "true", "false", "ok" (truncate),       *)
(* "Err" or "Panic", file the bytes afterwards and frame what was written. *)
(***************************************************************************)
MaxLabelsPerRecord == 100
MaxLabelLen == 255

WriterAnswer(res, err, f, frame) ==
    [res |-> res, err |-> err, file |-> f, frame |-> frame]

\* the guard of append_labelset
LabelsetGuard(id, last_id) == id = last_id + 1

\* the guard of append_checkpoint
CheckpointGuard(checkpoint, last_checkpoint) == checkpoint > last_checkpoint

\* LabelSetEntry::new and LabelSetRecord::new panic on a label of 256 bytes
\* or more and on more than 100 entries
EntriesAccepted(entries) ==
    /\ Len(entries) <= MaxLabelsPerRecord
    /\ \A i \in 1..Len(entries) : Len(entries[i][1]) <= MaxLabelLen

\* the frame goes through FramedWrite to the file, at the handle's cursor
SendFrame(f, pos, frame) == WriterAnswer("true", "", FileWrite(f, pos, frame), frame)

\* append_labelset once get_last_id has answered g
AppendLabelsetAfter(f, g, id, entries) ==
    IF g.res # "Ok" THEN WriterAnswer(g.res, g.err, f, << >>)
    ELSE IF ~LabelsetGuard(id, g.id) THEN WriterAnswer("false", "", f, << >>)
    ELSE IF ~EntriesAccepted(entries) THEN WriterAnswer("Panic", "new", f, << >>)
    ELSE SendFrame(f, g.pos, Encode([kind |-> "LabelSet", id |-> id, entries |-> entries]))

\* append_labelset; entries is the map in its iteration order
AppendLabelset(f, pos, id, entries) ==
    AppendLabelsetAfter(f, GetLastId(f, pos), id, entries)

\* append_checkpoint once get_last_checkpoint has answered g
AppendCheckpointAfter(f, g, checkpoint) ==
    IF g.res # "Ok" THEN WriterAnswer(g.res, g.err, f, << >>)
    ELSE IF ~CheckpointGuard(checkpoint, g.id) THEN WriterAnswer("false", "", f, << >>)
    ELSE SendFrame(f, g.pos,
                   Encode([kind |-> "Checkpoint", id |-> checkpoint, entries |-> << >>]))

\* append_checkpoint
AppendCheckpoint(f, pos, checkpoint) ==
    AppendCheckpointAfter(f, GetLastCheckpoint(f, pos), checkpoint)

\* truncate once peek_previous has answered p
TruncateAfter(f, p) ==
    IF p.res # "Ok" THEN WriterAnswer(p.res, p.err, f, << >>)
    ELSE WriterAnswer("ok", "", FileTruncate(f, p.pos), << >>)

\* truncate
Truncate(f, pos) == TruncateAfter(f, PeekPrevious(f, pos))

(***************************************************************************)
(* Mapped dictionaries.  A string is the sequence of its bytes, and        *)
(* strings compare as Rust compares them, byte by byte.  A PfcDict is the  *)
(* sequence of strings its builder was fed; a WaveletTree is the sequence  *)
(* of numbers it was built from, with the width in bits it was built with. *)
(***************************************************************************)
\* Ord for String: lexicographic on the bytes
StrLess(a, b) ==
    LET n == IF Len(a) < Len(b) THEN Len(a) ELSE Len(b)
    IN  \/ Len(a) < Len(b) /\ \A i \in 1..n : a[i] = b[i]
        \/ \E k \in 1..n : a[k] < b[k] /\ \A i \in 1..(k - 1) : a[i] = b[i]

NoneId == [some |-> FALSE, val |-> 0]
SomeId(v) == [some |-> TRUE, val |-> v]

\* the least position (from 0) at which q holds the value v, if any
FirstPosition(q, v) ==
    IF \E k \in 1..Len(q) : q[k] = v
    THEN SomeId((CHOOSE k \in 1..Len(q) :
                    q[k] = v /\ \A j \in 1..(k - 1) : q[j] # v) - 1)
    ELSE NoneId

\* PfcDict::len, PfcDict::get, PfcDict::id
PfcLen(dict) == Len(dict)
PfcGet(dict, ix) ==
    IF ix < Len(dict) THEN [res |-> "Ok", val |-> dict[ix + 1]]
    ELSE [res |-> "Panic", val |-> << >>]
PfcId(dict, s) == FirstPosition(dict, s)

\* PfcDictFileBuilder::add and finalize
BuilderAdd(builder, s) == Append(builder, s)
BuilderFinalize(builder) == builder

\* WaveletTree::from_parts, decode, decode_one, lookup_one
WaveletTreeFromParts(bits, width) == [width |-> width, entries |-> bits]
WaveletDecode(wtree) == wtree.entries
WaveletDecodeOne(wtree, ix) == wtree.entries[ix + 1]
WaveletLookupOne(wtree, entry) == FirstPosition(wtree.entries, entry)

\* build_wavelet_tree_from_stream: the bits written for a stream
BuildWaveletTreeFromStream(width, indexes) == indexes

\* (n as f32).log2().ceil() as u8: the least width whose range holds n values
Log2Ceil(n) ==
    IF n <= 1 THEN 0
    ELSE CHOOSE w \in 1..n : 2^w >= n /\ 2^(w - 1) < n

\* MappedPfcDict::from_parts
MappedPfcDictFromParts(dict, wtree) == [inner |-> dict, id_wtree |-> wtree]

\* MappedPfcDict::len
MappedLen(m) == PfcLen(m.inner)

\* MappedPfcDict::get after the lookup in the wavelet tree
MappedGetAt(m, mapped_id) ==
    IF mapped_id.some THEN PfcGet(m.inner, mapped_id.val)
    ELSE [res |-> "Panic", val |-> << >>]

\* MappedPfcDict::get
MappedGet(m, ix) ==
    IF ix >= MappedLen(m) THEN [res |-> "Panic", val |-> << >>]
    ELSE MappedGetAt(m, WaveletLookupOne(m.id_wtree, ix))

\* MappedPfcDict::id
MappedId(m, s) ==
    IF PfcId(m.inner, s).some
    THEN SomeId(WaveletDecodeOne(m.id_wtree, PfcId(m.inner, s).val))
    ELSE NoneId

\* an input of merge_dictionary_stack: a dictionary file and maybe the
\* wavelet tree files of the mapped dictionary it belongs to
NoRemap == [some |-> FALSE, bits |-> << >>]
SomeRemap(bits) == [some |-> TRUE, bits |-> bits]
StackEntry(dict, remap) == [file |-> dict, remap |-> remap]

\* dict_file_get_count of every input
Counts(stack) == [i \in 1..Len(stack) |-> PfcLen(stack[i].file)]

\* the scan over the counts: before each input, the tally so far
Offsets(counts) ==
    [i \in 1..Len(counts) |->
        LET prev[j \in 0..(i - 1)] ==
                IF j = 0 THEN 0 ELSE prev[j - 1] + counts[j]
        IN  prev[i - 1]]

\* zip of two streams
Zip(ixs, strs) ==
    [k \in 1..(IF Len(ixs) < Len(strs) THEN Len(ixs) ELSE Len(strs)) |->
        << ixs[k], strs[k] >>]

\* the strings of the file counted from 0 whatever the offset
PlainStreamFromZero(offset, file) ==
    Zip([k \in 1..Len(file) |-> k - 1], file)

\* remap None: the strings of the file, counted from offset
PlainStream(offset, file) ==
    Zip([k \in 1..Len(file) |-> offset + k - 1], file)

\* the strings of the file counted from offset whatever the wavelet tree
StreamByOffset(offset, entry) ==
    PlainStream(offset, entry.file)

\* remap Some: the strings of the file, each with the number the wavelet
\* tree, read with the width of the file's count, decodes for it
RemapStream(file, remap) ==
    Zip(WaveletDecode(WaveletTreeFromParts(remap.bits, Log2Ceil(PfcLen(file)))),
        file)

\* the stream of one input
StreamOf(offset, entry) ==
    IF entry.remap.some THEN RemapStream(entry.file, entry.remap)
    ELSE PlainStream(offset, entry.file)

\* the streams of the stack
Streams(stack) ==
    [i \in 1..Len(stack) |-> StreamOf(Offsets(Counts(stack))[i], stack[i])]

\* a selector that takes the minimum over the index, not over the string
PickFirstLive(streams) ==
    IF \A i \in 1..Len(streams) : streams[i] = << >> THEN 0
    ELSE CHOOSE i \in 1..Len(streams) :
            streams[i] # << >> /\ \A j \in 1..(i - 1) : streams[j] = << >>

\* the selector given to sorted_stream: of the streams that have a head, the
\* first whose head has the least string; 0 when none has
PickMin(streams) ==
    LET live == { i \in 1..Len(streams) : streams[i] # << >> }
    IN  IF live = {} THEN 0
        ELSE CHOOSE i \in live :
                /\ \A j \in live : ~StrLess(streams[j][1][2], streams[i][1][2])
                /\ \A j \in live :
                      j < i => StrLess(streams[i][1][2], streams[j][1][2])

\* sorted_stream: the head of the picked stream is emitted and that stream
\* alone moves on
RECURSIVE SortedStream(_)
SortedStream(streams) ==
    LET ix == PickMin(streams)
    IN  IF ix = 0 THEN << >>
        ELSE << streams[ix][1] >>
                 \o SortedStream([streams EXCEPT ![ix] = Tail(streams[ix])])

\* the fold over the sorted stream: every item's id is pushed onto the
\* indexes and its string is added to the builder
RECURSIVE Fold(_, _)
Fold(acc, items) ==
    IF items = << >> THEN acc
    ELSE Fold([builder |-> BuilderAdd(acc.builder, items[1][2]),
               indexes |-> Append(acc.indexes, items[1][1])],
              Tail(items))

\* max of the indexes, 0 for none, plus one
MaxPlusOne(indexes) ==
    IF indexes = << >> THEN 1
    ELSE (CHOOSE v \in { indexes[k] : k \in 1..Len(indexes) } :
             \A k \in 1..Len(indexes) : indexes[k] <= v) + 1

\* the files written at the end: the dictionary and the wavelet tree
Finish(folded) ==
    [dict |-> BuilderFinalize(folded.builder),
     width |-> Log2Ceil(MaxPlusOne(folded.indexes)),
     bits |-> BuildWaveletTreeFromStream(Log2Ceil(MaxPlusOne(folded.indexes)),
                                         folded.indexes),
     indexes |-> folded.indexes]

\* merge_dictionary_stack
MergeDictionaryStack(stack) ==
    Finish(Fold([builder |-> << >>, indexes |-> << >>],
                SortedStream(Streams(stack))))

(***************************************************************************)
(* The inputs of the model.                                                *)
(***************************************************************************)
\* a map's bindings in one iteration order of the HashMap
Orders(m) ==
    { es \in [1..Cardinality(m) -> m] :
        \A i, j \in 1..Cardinality(m) : i # j => es[i] # es[j] }

\* the maps append_labelset is given, each in every iteration order
EntryLists == UNION { Orders(m) : m \in LabelMaps }

Records ==
    [kind : {"LabelSet"}, id : Ids, entries : EntryLists]
        \cup [kind : {"Checkpoint"}, id : Ids, entries : {<< >>}]

\* the frame the decoder takes for the record r: the length field counts the
\* type byte and the checksum covers it
ReadFrame(r) ==
    << TypeNum(r.kind) >> \o RecordData(r)
        \o WriteU32(Len(RecordData(r)) + 1)
        \o ChecksumIeee(<< TypeNum(r.kind) >> \o RecordData(r))

\* the length field and the checksum that end a frame
Trailer(frame) == Drop(frame, Len(frame) - 8)

\* the records of the files a handle is opened on
ReadRecords ==
    { [kind |-> "Checkpoint", id |-> 1, entries |-> << >>],
      [kind |-> "LabelSet", id |-> 1, entries |-> << >>],
      [kind |-> "LabelSet", id |-> 2, entries |-> << << LabelX, LayerA1 >> >>] }

\* what a file is made of: frames as the writer lays them out, frames as the
\* decoder takes them, and trailers left without their frame
Pieces ==
    { Encode(r) : r \in ReadRecords }
        \cup { ReadFrame(r) : r \in ReadRecords }
        \cup { Trailer(ReadFrame(r)) : r \in ReadRecords }

RECURSIVE Concat(_)
Concat(ps) == IF ps = << >> THEN << >> ELSE ps[1] \o Concat(Tail(ps))

\* the files a handle is opened on: up to MaxPieces pieces
ReadFiles ==
    { Concat(ps) : ps \in UNION { [1..n -> Pieces] : n \in 0..MaxPieces } }

\* the pieces of the byte sequences fed to a decoder in chunks: two frames it
\* takes and one, as the writer lays it out, that it refuses
ChunkPieces ==
    { ReadFrame([kind |-> "Checkpoint", id |-> 1, entries |-> << >>]),
      ReadFrame([kind |-> "LabelSet", id |-> 2,
                 entries |-> << << LabelX, LayerA1 >> >>]),
      Encode([kind |-> "Checkpoint", id |-> 1, entries |-> << >>]) }

\* the byte sequences fed to a decoder in chunks: up to MaxPieces pieces
ChunkFiles ==
    { Concat(ps) : ps \in UNION { [1..n -> ChunkPieces] : n \in 0..MaxPieces } }

\* the strings of the dictionaries: "a", "ab", "b"
Strings == { << 97 >>, << 97, 98 >>, << 98 >> }

\* the dictionary file of a set of strings: the strings in order
DictOf(S) ==
    CHOOSE q \in [1..Cardinality(S) -> S] :
        \A i, j \in 1..Cardinality(S) : i < j => StrLess(q[i], q[j])

\* the plain dictionary files
Dicts == { DictOf(S) : S \in SUBSET Strings }

(***************************************************************************)
(* State.  file is the content of wa.log and lastOp the last writer call:  *)
(* its name, identifier, the cursor of the handle it was given, the file   *)
(* before it and its answer.  The other variables are a decoder at work:   *)
(* sent the records encoded so far, wire the encoded bytes not yet handed  *)
(* to the decoder, buffer the caller's BytesMut, decoder the decoder and   *)
(* results what the decode calls returned (other than "need more").        *)
(***************************************************************************)
VARIABLES file, lastOp, sent, wire, buffer, decoder, results,
          stack, indexes, merged, cursor, lastRead, sessions

vars == << file, lastOp, sent, wire, buffer, decoder, results,
           stack, indexes, merged, cursor, lastRead, sessions >>
readVars == << cursor, lastRead >>
sessVars == << sessions >>
walVars == << file, lastOp >>
codecVars == << sent, wire, buffer, decoder, results >>
dictVars == << stack, indexes, merged >>

\* the sessions that take the exclusive lock of the file: none has started
Sessions == 1..MaxSessions
NoSession == [pc |-> "idle", pos |-> 0, id |-> 0, res |-> ""]
NoSessions == [s \in Sessions |-> NoSession]

\* a handle just opened: nothing read, the cursor on 0
Opened ==
    [op |-> "open", from |-> 0, arg |-> 0,
     ans |-> [res |-> "Ok", err |-> "", handle |-> TRUE, pos |-> 0]]

NoOp ==
    [op |-> "none", id |-> 0, pos |-> 0, before |-> << >>, frame |-> << >>,
     res |-> "", err |-> ""]

Init ==
    /\ file = << >>
    /\ lastOp = NoOp
    /\ sent = << >>
    /\ wire = << >>
    /\ buffer = << >>
    /\ decoder = DecoderStart
    /\ results = << >>
    /\ stack = << >>
    /\ indexes = << >>
    /\ merged = MappedPfcDictFromParts(<< >>, WaveletTreeFromParts(<< >>, 0))
    /\ cursor = 0
    /\ lastRead = Opened
    /\ sessions = NoSessions

\* a handle is opened on the file, its cursor is set and the call is made
Called(op, id, pos, a) ==
    /\ a.res # "Panic"
    /\ file' = a.file
    /\ lastOp' = [op |-> op, id |-> id, pos |-> pos, before |-> file,
                  frame |-> a.frame, res |-> a.res, err |-> a.err]
    /\ UNCHANGED << codecVars, dictVars, readVars, sessVars >>

\* the cursor of the handle a call is given: a handle just opened, or one
\* moved to the end of the file
Cursors(f) == { 0, Len(f) }

DoAppendLabelset ==
    \E pos \in Cursors(file), id \in Ids, es \in EntryLists :
        Called("append_labelset", id, pos, AppendLabelset(file, pos, id, es))

DoAppendCheckpoint ==
    \E pos \in Cursors(file), id \in Ids :
        Called("append_checkpoint", id, pos, AppendCheckpoint(file, pos, id))

DoTruncate ==
    \E pos \in Cursors(file) :
        Called("truncate", 0, pos, Truncate(file, pos))

Next == DoAppendLabelset \/ DoAppendCheckpoint \/ DoTruncate

Spec == Init /\ [][Next]_vars

(***************************************************************************)
(* The codec at work: records go through WalFileEncoder::encode onto the   *)
(* wire, and the wire is handed to WalFileDecoder::decode in chunks.       *)
(***************************************************************************)
CodecEncode ==
    \E r \in Records :
        /\ Len(sent) < MaxSent
        /\ sent' = Append(sent, r)
        /\ wire' = wire \o Encode(r)
        /\ UNCHANGED << buffer, decoder, results, walVars, dictVars, readVars, sessVars >>

\* what a decode call left behind: the decoder, the caller's buffer and,
\* unless it asked for more bytes, its answer
CodecDecoded(d) ==
    /\ decoder' = d.st
    /\ buffer' = d.rest
    /\ results' = IF d.res = "None" THEN results
                  ELSE Append(results, [res |-> d.res, err |-> d.err, val |-> d.val])

\* the last decode call panicked
Panicked == IF results = << >> THEN FALSE ELSE results[Len(results)].res = "Panic"

\* the next k bytes arrive in the buffer and decode is called; a panic ends
\* the run
CodecDecode ==
    \E k \in 1..Len(wire) :
        /\ ~Panicked
        /\ wire' = Drop(wire, k)
        /\ CodecDecoded(Decode(decoder, buffer \o Take(wire, k)))
        /\ UNCHANGED << sent, walVars, dictVars, readVars, sessVars >>

CodecNext == CodecEncode \/ CodecDecode

CodecSpec == Init /\ [][CodecNext]_vars

(***************************************************************************)
(* Dictionaries being merged: stack is the stack the last call of          *)
(* merge_dictionary_stack was given, indexes the ids its fold collected    *)
(* and merged the mapped dictionary read back from the files it wrote.     *)
(* A later call may be given the merged dictionary's file together with    *)
(* its wavelet tree files.                                                 *)
(***************************************************************************)
\* the inputs a call may be given: a plain dictionary file, or the files of
\* the mapped dictionary merged last
StackEntries(m) ==
    { StackEntry(d, NoRemap) : d \in Dicts }
        \cup { StackEntry(m.inner, SomeRemap(m.id_wtree.entries)) : x \in
                 IF m.inner # << >>
                    /\ Log2Ceil(PfcLen(m.inner)) = m.id_wtree.width
                 THEN {1} ELSE {} }

\* the stacks of up to MaxStack inputs holding up to MaxCount strings
Stacks(m) ==
    { st \in UNION { [1..n -> StackEntries(m)] : n \in 1..MaxStack } :
        Offsets(Counts(st))[Len(st)] + Counts(st)[Len(st)] <= MaxCount }

\* the state after a call wrote its files
Merged(st, out) ==
    /\ stack' = st
    /\ indexes' = out.indexes
    /\ merged' = MappedPfcDictFromParts(out.dict,
                     WaveletTreeFromParts(out.bits, out.width))
    /\ UNCHANGED << walVars, codecVars, readVars, sessVars >>

DoMergeDictionaryStack ==
    \E st \in Stacks(merged) : Merged(st, MergeDictionaryStack(st))

DictNext == DoMergeDictionaryStack

DictSpec == Init /\ [][DictNext]_vars

(***************************************************************************)
(* A handle at work on a file: cursor is the cursor of the handle and      *)
(* lastRead the last call made on it: its name, the cursor it started      *)
(* from, its argument and its answer.  A call that loses the handle (an    *)
(* error that comes with None, a panic) is followed by a fresh open.       *)
(***************************************************************************)
ReadInit ==
    /\ file \in ReadFiles
    /\ lastOp = NoOp
    /\ sent = << >>
    /\ wire = << >>
    /\ buffer = << >>
    /\ decoder = DecoderStart
    /\ results = << >>
    /\ stack = << >>
    /\ indexes = << >>
    /\ merged = MappedPfcDictFromParts(<< >>, WaveletTreeFromParts(<< >>, 0))
    /\ cursor = 0
    /\ lastRead = Opened
    /\ sessions = NoSessions

HandleHeld == lastRead.ans.handle

\* the call op was made with the cursor on `cursor` and answered a
Read(op, arg, a) ==
    /\ HandleHeld
    /\ cursor' = a.pos
    /\ lastRead' = [op |-> op, from |-> cursor, arg |-> arg, ans |-> a]
    /\ UNCHANGED << walVars, codecVars, dictVars, sessVars >>

ReadOpen ==
    /\ ~HandleHeld
    /\ cursor' = 0
    /\ lastRead' = Opened
    /\ UNCHANGED << walVars, codecVars, dictVars, sessVars >>

ReadSeek ==
    \E pos \in Cursors(file) :
        Read("seek", pos, [res |-> "Ok", err |-> "", handle |-> TRUE, pos |-> pos])

ReadNextRecord == Read("next_record", 0, NextRecord(file, cursor))
ReadPeekRecord == Read("peek_record", 0, PeekRecord(file, cursor))
ReadSeekPrevious == Read("seek_previous", 0, SeekPrevious(file, cursor))
ReadPeekPrevious == Read("peek_previous", 0, PeekPrevious(file, cursor))
ReadPrevious == Read("previous", 0, Previous(file, cursor))

ReadWalkBackwards ==
    \E stopAt \in 0..MaxStopAt :
        Read("walk_backwards", stopAt,
             WalkBackwards(file, cursor, "counting", CountingInit(stopAt)))

ReadGetLastCheckpoint ==
    Read("get_last_checkpoint", 0, GetLastCheckpoint(file, cursor))
ReadGetLastId == Read("get_last_id", 0, GetLastId(file, cursor))

ReadNext ==
    \/ ReadOpen \/ ReadSeek
    \/ ReadNextRecord \/ ReadPeekRecord
    \/ ReadSeekPrevious \/ ReadPeekPrevious \/ ReadPrevious
    \/ ReadWalkBackwards \/ ReadGetLastCheckpoint \/ ReadGetLastId

ReadSpec == ReadInit /\ [][ReadNext]_vars

(***************************************************************************)
(* Sessions on one file.  A session takes the exclusive lock when it opens *)
(* its ExclusiveWalFile and holds it for as long as the handle lives;      *)
(* append_labelset takes the handle by value, so the lock is released when *)
(* the call ends.  sessions[s] is [pc, pos, id, res]: "idle", "held" (the  *)
(* lock taken, the cursor on pos) or "done" (append_labelset(id, _)        *)
(* answered res).                                                          *)
(***************************************************************************)
LockFree == \A s \in Sessions : sessions[s].pc # "held"

\* session s opens its handle: it waits for the lock; the cursor is that of
\* a handle just opened or moved to the end of the file
SessionOpen(s) ==
    \E pos \in Cursors(file) :
        /\ sessions[s].pc = "idle"
        /\ LockFree
        /\ sessions' = [sessions EXCEPT ![s] = [@ EXCEPT !.pc = "held", !.pos = pos]]
        /\ UNCHANGED << walVars, codecVars, dictVars, readVars >>

\* the call of session s answered a; the handle is gone and the lock with it
SessionCalled(s, id, a) ==
    /\ file' = a.file
    /\ sessions' = [sessions EXCEPT ![s] =
                        [pc |-> "done", pos |-> @.pos, id |-> id, res |-> a.res]]
    /\ UNCHANGED << lastOp, codecVars, dictVars, readVars >>

\* session s calls append_labelset on its handle
SessionAppendLabelset(s) ==
    \E id \in Ids, es \in EntryLists :
        /\ sessions[s].pc = "held"
        /\ SessionCalled(s, id, AppendLabelset(file, sessions[s].pos, id, es))

SessionNext ==
    \E s \in Sessions : SessionOpen(s) \/ SessionAppendLabelset(s)

SessionSpec == Init /\ [][SessionNext]_vars

(***************************************************************************)
(* The bytes of a file handed to the decoder in chunks, as a framed reader *)
(* does: wire is what is left of the file, buffer the reader's buffer.     *)
(* Each call brings the next k bytes; k = 0 is a call on what the buffer   *)
(* still holds.                                                            *)
(***************************************************************************)
ChunkInit ==
    /\ file \in ChunkFiles
    /\ lastOp = NoOp
    /\ sent = << >>
    /\ wire = file
    /\ buffer = << >>
    /\ decoder = DecoderStart
    /\ results = << >>
    /\ stack = << >>
    /\ indexes = << >>
    /\ merged = MappedPfcDictFromParts(<< >>, WaveletTreeFromParts(<< >>, 0))
    /\ cursor = 0
    /\ lastRead = Opened
    /\ sessions = NoSessions

ChunkDecode ==
    \E k \in 0..Len(wire) :
        /\ ~Panicked
        /\ k > 0 \/ buffer # << >>
        /\ wire' = Drop(wire, k)
        /\ CodecDecoded(Decode(decoder, buffer \o Take(wire, k)))
        /\ UNCHANGED << sent, walVars, dictVars, readVars, sessVars >>

ChunkNext == ChunkDecode

ChunkSpec == ChunkInit /\ [][ChunkNext]_vars

(***************************************************************************)
(* A handle on a file whose last write was torn: the file stops somewhere  *)
(* inside a frame.  The handle seeks to the start of a frame or to the end *)
(* of the file and reads the next record there.                            *)
(***************************************************************************)
\* the files cut short at any byte
Prefixes(f) == { Take(f, k) : k \in 0..Len(f) }
TornFiles == UNION { Prefixes(f) : f \in ChunkFiles }

TornInit ==
    /\ file \in TornFiles
    /\ lastOp = NoOp
    /\ sent = << >>
    /\ wire = << >>
    /\ buffer = << >>
    /\ decoder = DecoderStart
    /\ results = << >>
    /\ stack = << >>
    /\ indexes = << >>
    /\ merged = MappedPfcDictFromParts(<< >>, WaveletTreeFromParts(<< >>, 0))
    /\ cursor = 0
    /\ lastRead = Opened
    /\ sessions = NoSessions

\* the offsets a reader stands on: the two ends of the file and the ends of
\* the whole frames it begins with
TornCursors(f) ==
    Cursors(f) \cup { Len(g) : g \in { h \in ChunkFiles :
                                          Len(h) <= Len(f) /\ Take(f, Len(h)) = h } }

\* seek(SeekFrom::Start(pos)) to one of these offsets
TornSeek ==
    \E pos \in TornCursors(file) :
        Read("seek", pos, [res |-> "Ok", err |-> "", handle |-> TRUE, pos |-> pos])

TornNext == TornSeek \/ ReadNextRecord

TornSpec == TornInit /\ [][TornNext]_vars

(***************************************************************************)
(* The frames of a file, by the layout the writer gives them: a frame is   *)
(* Encode(r) for a record r, and the file is read frame after frame from   *)
(* offset 0 for as long as the bytes are frames.                           *)
(***************************************************************************)
NoFrame == [kind |-> "None", id |-> 0, entries |-> << >>]

\* the record a body holds
BodyRecord(kind, body) ==
    [kind |-> kind, id |-> Identifier(body),
     entries |-> IF kind = "LabelSet" THEN LabelSetEntries(body) ELSE << >>]

\* the label set body at the head of data, s being the split of data
LabelSetBody(data, s) ==
    IF s.res = "Ok" THEN BodyRecord("LabelSet", Take(data, Len(data) - Len(s.rest)))
    ELSE NoFrame

\* the record whose frame the bytes can start with
HeadRecord(bytes) ==
    IF Len(bytes) < 5 THEN NoFrame
    ELSE IF bytes[1] = 1 THEN BodyRecord("Checkpoint", SubSeq(bytes, 2, 5))
    ELSE IF bytes[1] = 0 THEN LabelSetBody(Tail(bytes), LabelSetTrySplit(Tail(bytes)))
    ELSE NoFrame

\* r with the length of its frame e, if the bytes start with e
HeadFrame(bytes, r, e) ==
    IF r.kind # "None" /\ Len(e) <= Len(bytes) /\ Take(bytes, Len(e)) = e
    THEN [ok |-> TRUE, rec |-> r, len |-> Len(e)]
    ELSE [ok |-> FALSE, rec |-> NoFrame, len |-> 0]

FrameOf(bytes, r) == HeadFrame(bytes, r, Encode(r))
FrameAt(bytes) == FrameOf(bytes, HeadRecord(bytes))

RECURSIVE FramesFrom(_, _)
FramesAfter(f, o, h) ==
    IF h.ok THEN << [rec |-> h.rec, start |-> o, end |-> o + h.len] >>
                     \o FramesFrom(f, o + h.len)
    ELSE << >>
FramesFrom(f, o) == FramesAfter(f, o, FrameAt(Drop(f, o)))

\* the frames of the file in file order: [rec, start, end]
Frames(f) == FramesFrom(f, 0)

IdsOf(fs, kind) ==
    LET ofKind == SelectSeq(fs, LAMBDA x : x.rec.kind = kind)
    IN  [i \in 1..Len(ofKind) |-> ofKind[i].rec.id]

\* the label set ids and the checkpoint ids in file order
LabelSetIds(f) == IdsOf(Frames(f), "LabelSet")
CheckpointIds(f) == IdsOf(Frames(f), "Checkpoint")

LastOr(ids, d) == IF ids = << >> THEN d ELSE ids[Len(ids)]

\* the id of the last Checkpoint record of the file, 0 if there is none
LastCheckpointId(f) == LastOr(CheckpointIds(f), 0)
\* the id of the last LabelSet record of the file; without one, the last
\* checkpoint id or 0
LastLabelSetId(f) == LastOr(LabelSetIds(f), LastCheckpointId(f))

(***************************************************************************)
(* The claims about the codec.                                             *)
(***************************************************************************)
\* one record of the kinds C1 speaks of went through the encoder and all of
\* its bytes through the decoder
RoundTripCase ==
    /\ Len(sent) = 1
    /\ wire = << >>
    /\ sent[1].kind = "LabelSet" => Len(sent[1].entries) \in 1..100

\* the record d that record() made of a decoded value is the record r
SameRecord(r, d) ==
    /\ d.kind = r.kind
    /\ Identifier(d.data) = r.id
    /\ r.kind = "LabelSet" => LabelSetEntries(d.data) = r.entries
    /\ AnnotatedWalRecordNew(d.kind, d.data) = Encode(r)

\* C1: a label set record of 1..=100 entries or a checkpoint record R that is
\* encoded and fed to a fresh decoder comes out, without error, as exactly
\* one record of R's kind, id and entries, and encoding that record again
\* gives the same bytes.
C1_RoundTrip ==
    RoundTripCase =>
        /\ Len(results) = 1
        /\ results[1].res = "Some"
        /\ SameRecord(sent[1], RecordOf(results[1].val))

(***************************************************************************)
(* The claims about the writer and the reverse scans.                      *)
(***************************************************************************)
Appended(op) == lastOp.op = op /\ lastOp.res = "true"

\* the scan answered Ok with this identifier
AnswersId(g, id) == g.res = "Ok" /\ g.id = id

\* C2: after append_labelset(id, labels) has completed with true, get_last_id
\* scanning back from the end of the file returns id.
C2_LastIdAfterAppend ==
    Appended("append_labelset") => AnswersId(GetLastId(file, Len(file)), lastOp.id)

\* C3: after append_checkpoint(c) has completed with true, get_last_checkpoint
\* scanning back from the end of the file returns c.
C3_LastCheckpointAfterAppend ==
    Appended("append_checkpoint")
        => AnswersId(GetLastCheckpoint(file, Len(file)), lastOp.id)

\* the call answered false exactly when refused holds, and then left the
\* file as it was
RefusedIff(refused) ==
    /\ (lastOp.res = "false") <=> refused
    /\ lastOp.res = "false" => file = lastOp.before

\* C4: whatever the file and the cursor of the handle, append_labelset(id, _)
\* returns false if and only if id is not one more than the id of the last
\* LabelSet record of the file (the last checkpoint id or 0 without one), and
\* a call that returns false leaves the bytes of the file as they were.
C4_LabelsetRefusal ==
    lastOp.op = "append_labelset"
        => RefusedIff(lastOp.id # LastLabelSetId(lastOp.before) + 1)

\* C5: whatever the file and the cursor of the handle, append_checkpoint(c)
\* returns false if and only if c is at most the id of the last Checkpoint
\* record of the file (0 without one), and a call that returns false leaves
\* the bytes of the file as they were.
C5_CheckpointRefusal ==
    lastOp.op = "append_checkpoint"
        => RefusedIff(lastOp.id <= LastCheckpointId(lastOp.before))

EachOneMore(ids) == \A i \in 1..(Len(ids) - 1) : ids[i + 1] = ids[i] + 1
Increasing(ids) == \A i \in 1..(Len(ids) - 1) : ids[i + 1] > ids[i]

\* C6: after every sequence of append_labelset, append_checkpoint and
\* truncate calls on a file that was empty, the LabelSet ids in file order
\* are strictly increasing, each exactly one more than the one before it.
C6_LabelSetIdsConsecutive == EachOneMore(LabelSetIds(file))

\* C7: after every sequence of append_labelset, append_checkpoint and
\* truncate calls on a file that was empty, the Checkpoint ids in file order
\* are strictly increasing.
C7_CheckpointIdsIncreasing == Increasing(CheckpointIds(file))

BindingsAbove(fs, c) ==
    UNION { { [label |-> fs[i].rec.entries[j][1], id |-> fs[i].rec.id,
               layer |-> fs[i].rec.entries[j][2]] :
                j \in 1..Len(fs[i].rec.entries) } :
            i \in { k \in 1..Len(fs) : fs[k].rec.kind = "LabelSet" /\ fs[k].rec.id > c } }

\* of the bindings of each label, the one with the greatest id
Latest(bs) == { b \in bs : \A o \in bs : o.label = b.label => o.id <= b.id }

\* the answer g is the checkpoint c and the latest bindings above it
LatestWins(g, fs, c) ==
    g.res = "Ok" /\ g.checkpoint_id = c /\ g.map = Latest(BindingsAbove(fs, c))

\* C10: get_all_labels_since_last_checkpoint, scanning back from the end of
\* the file, returns the id of the last Checkpoint record of the file (0
\* without one) and a map of exactly the labels of the LabelSet records with
\* a greater id, each label with the (id, layer) of its occurrence of
\* greatest id.
C10_LatestWins ==
    LatestWins(GetAllLabelsSinceLastCheckpoint(file, Len(file)),
               Frames(file), LastCheckpointId(file))

\* the sets of labels asked for
WantedSets == SUBSET { LabelX, LabelY }

\* the answer w of get_labels_since_last_checkpoint(wanted) is the answer a
\* of get_all_labels_since_last_checkpoint with its map cut down to wanted
RestrictedTo(w, a, wanted) ==
    /\ w.res = a.res
    /\ w.err = a.err
    /\ w.checkpoint_id = a.checkpoint_id
    /\ w.map = { b \in a.map : b.label \in wanted }

SameFromEvery(f, a, pos) ==
    \A wanted \in WantedSets :
        RestrictedTo(GetLabelsSinceLastCheckpoint(f, pos, wanted), a, wanted)

FramesEnd(fs) == IF fs = << >> THEN 0 ELSE fs[Len(fs)].end

\* the file is one or more whole frames and nothing else
WholeFrames(f) == Frames(f) # << >> /\ FramesEnd(Frames(f)) = Len(f)

\* next_record has answered n: the record of frame fr, the cursor on P
ReadsFrame(n, fr, P) ==
    /\ n.res = "Ok"
    /\ n.rec.some
    /\ SameRecord(fr.rec, RecordOf(n.rec.data))
    /\ n.pos = P

\* seek_previous from the end of frame fr, then next_record
BackAndForth(f, fr, s) ==
    s.res = "Ok" /\ ReadsFrame(NextRecord(f, s.pos), fr, fr.end)

\* C12: in a file of valid frames, from every cursor P > 0 that is the end of
\* a frame (the last frame's or one in the middle of the file), seek_previous
\* followed by next_record returns the frame that ends at P and leaves the
\* cursor on P.
C12_SeekPreviousThenNext ==
    WholeFrames(file) =>
        \A i \in 1..Len(Frames(file)) :
            BackAndForth(file, Frames(file)[i], SeekPrevious(file, Frames(file)[i].end))

\* the records a scan delivered and whether it ended with None
ScanEnd(ended) == [ended |-> ended, recs |-> << >>]
ScanMore(data, rest) == [ended |-> rest.ended, recs |-> << data >> \o rest.recs]

RECURSIVE ReverseScan(_, _, _)
\* previous() again and again from pos, at most fuel records
ReverseScan(f, pos, fuel) ==
    LET p == Previous(f, pos)
    IN  IF p.res # "Ok" THEN ScanEnd(FALSE)
        ELSE IF ~p.rec.some THEN ScanEnd(TRUE)
        ELSE IF fuel = 0 THEN ScanEnd(FALSE)
        ELSE ScanMore(p.rec.data, ReverseScan(f, p.pos, fuel - 1))

RECURSIVE ForwardScan(_, _, _)
\* next_record again and again from pos, at most fuel records
ForwardScan(f, pos, fuel) ==
    LET n == NextRecord(f, pos)
    IN  IF n.res # "Ok" THEN ScanEnd(FALSE)
        ELSE IF ~n.rec.some THEN ScanEnd(TRUE)
        ELSE IF fuel = 0 THEN ScanEnd(FALSE)
        ELSE ScanMore(n.rec.data, ForwardScan(f, n.pos, fuel - 1))

Reverse(s) == [i \in 1..Len(s) |-> s[Len(s) + 1 - i]]

\* the backward scan r and the forward scan w both delivered n records and
\* then None, r in the reverse of the order of w
MirrorScans(r, w, n) ==
    /\ r.ended /\ w.ended
    /\ Len(w.recs) = n
    /\ r.recs = Reverse(w.recs)

\* C13: on a file of n valid frames written by the writer, previous() called
\* again and again from the end of the file returns the n records in exactly
\* the reverse of the order in which next_record called again and again from
\* offset 0 returns them, and then returns None.
C13_ReverseOfForward ==
    WholeFrames(file) =>
        MirrorScans(ReverseScan(file, Len(file), Len(Frames(file))),
                    ForwardScan(file, 0, Len(Frames(file))),
                    Len(Frames(file)))

\* C14: on a file that holds no LabelSet record and at least one Checkpoint
\* record, get_last_id with the cursor at the end of the file returns the id
\* of the last Checkpoint record.
C14_LastIdFallsBack ==
    WholeFrames(file) /\ LabelSetIds(file) = << >> /\ CheckpointIds(file) # << >>
        => AnswersId(GetLastId(file, Len(file)), LastCheckpointId(file))

\* the file is whole frames followed by bytes that are no frame
TornTail(f) == Frames(f) # << >> /\ FramesEnd(Frames(f)) < Len(f)

\* the scan failed the way a torn write is said to show
FailsAsTorn(p) == p.res = "Err" /\ p.err \in { "IncompleteRecord", "CrcFailure" }

\* a reverse scan from the end of f fails as a torn write is said to
TornScanFails(f) ==
    /\ FailsAsTorn(PeekPrevious(f, Len(f)))
    /\ FailsAsTorn(Previous(f, Len(f)))

\* the proper prefixes of frame e that are not empty
TornPrefixes(e) == { Take(e, k) : k \in 1..(Len(e) - 1) }

\* C15: on a file of whole valid frames followed by a torn tail (a proper
\* prefix of a frame that is not empty, or junk bytes), a reverse scan from
\* the end of the file (peek_previous, previous) fails with IncompleteRecord
\* or CrcFailure and delivers no record.  The tail is what an overwrite left
\* behind the frames of the file, or the part of a frame that a write broken
\* off at the end of the file got out.
C15_TornTailFails ==
    /\ TornTail(file) => TornScanFails(file)
    /\ WholeFrames(file) =>
           \A r \in Records : \A t \in TornPrefixes(Encode(r)) :
               TornScanFails(file \o t)

(***************************************************************************)
(* The claims about truncate.                                              *)
(***************************************************************************)
\* truncate has answered t where peek_previous answers p, cursor on P: the
\* file cut at P, or the error and the file as it was
CutOrKept(f, P, p, t) ==
    IF p.res = "Ok" THEN t.res = "ok" /\ t.file = Take(f, P)
    ELSE t.res = p.res /\ t.err = p.err /\ t.file = f

\* truncate has answered t with the cursor at the end of a whole frame: the
\* file is the frames up to there, and a scan from its end succeeds
CutAtFrame(f, e, t) ==
    /\ t.res = "ok"
    /\ t.file = Take(f, e)
    /\ GetLastCheckpoint(t.file, Len(t.file)).res = "Ok"

\* C16: truncate() with the cursor on P cuts the file to length P, bytes
\* [0, P) unchanged, if peeking the previous record succeeds, and otherwise
\* returns the error and leaves the file byte-identical; with the cursor at
\* the end of the k-th whole frame the file becomes exactly the first k
\* frames and later scans succeed.
C16_TruncateAtCursor ==
    /\ \A P \in 0..Len(file) :
           CutOrKept(file, P, PeekPrevious(file, P), Truncate(file, P))
    /\ \A i \in 1..Len(Frames(file)) :
           CutAtFrame(file, Frames(file)[i].end, Truncate(file, Frames(file)[i].end))

(***************************************************************************)
(* The claim about the layout of a frame.                                  *)
(***************************************************************************)
\* the frame of a body of type tp with the given length and crc fields
FrameWith(tp, body, lenb, crcb) == << tp >> \o body \o lenb \o crcb

\* the fields C20 gives a frame: the number of body bytes, and the CRC-32 of
\* the type byte followed by the body
LengthOfBody(body) == WriteU32(Len(body))
CrcOfTypeAndBody(tp, body) == ChecksumIeee(<< tp >> \o body)

\* the length and crc fields a frame may be tried with
LengthFields(body) == { WriteU32(Len(body)), WriteU32(Len(body) + 1) }
CrcFields(tp, body) == { ChecksumIeee(body), ChecksumIeee(<< tp >> \o body) }

\* a fresh decoder accepts the frame
Accepts(frame) == Decode(DecoderStart, frame).res = "Some"

\* the frame written for body is laid out as C20 says, and of the frames
\* tried the decoder accepts exactly the one with C20's two fields
LaidOut(e, tp, body) ==
    /\ e = FrameWith(tp, body, LengthOfBody(body), CrcOfTypeAndBody(tp, body))
    /\ \A lenb \in LengthFields(body), crcb \in CrcFields(tp, body) :
           Accepts(FrameWith(tp, body, lenb, crcb))
               <=> (lenb = LengthOfBody(body) /\ crcb = CrcOfTypeAndBody(tp, body))

\* C20: the frame written for a record is type || body || length || crc with
\* length the number of body bytes (the type byte not counted) and crc the
\* CRC-32 of the type byte followed by the body, and the decoder accepts a
\* frame exactly when its length and crc fields satisfy these two equalities.
C20_FrameLayout ==
    RoundTripCase =>
        LaidOut(Encode(sent[1]), TypeNum(sent[1].kind), RecordData(sent[1]))

(***************************************************************************)
(* Merged dictionaries.                                                    *)
(***************************************************************************)
\* the strings of a dictionary file
StringsOf(dict) == { dict[k] : k \in 1..Len(dict) }

\* no input of the stack came with a wavelet tree
NoRemaps(st) == \A i \in 1..Len(st) : ~st[i].remap.some

\* no string is in two of the inputs from..Len(st)
DisjointFrom(st, from) ==
    \A i, j \in from..Len(st) :
        i # j => StringsOf(st[i].file) \cap StringsOf(st[j].file) = {}

\* the mapped dictionary m has the string s at id ix, both ways
HasAt(m, ix, s) ==
    /\ MappedGet(m, ix) = [res |-> "Ok", val |-> s]
    /\ MappedId(m, s) = SomeId(ix)

\* the strings of the inputs from..Len(st) are in m at offset + position
AtOffsets(m, st, from) ==
    \A i \in from..Len(st) : \A p \in 1..Len(st[i].file) :
        HasAt(m, Offsets(Counts(st))[i] + p - 1, st[i].file[p])

\* C17: after a merge of plain dictionaries (no remap) with pairwise
\* disjoint strings, the merged mapped dictionary has the string at position
\* p of input i at the id offset_i + p, for get and for id alike, offset_i
\* being the number of strings of the inputs before i.
C17_PlainMergeKeepsOffsets ==
    (NoRemaps(stack) /\ DisjointFrom(stack, 1)) => AtOffsets(merged, stack, 1)

\* two plain inputs with disjoint strings were merged, and the merge put a
\* string of the second before a string of the first
C17_Witness ==
    /\ Len(stack) = 2
    /\ NoRemaps(stack)
    /\ DisjointFrom(stack, 1)
    /\ Len(stack[1].file) = 2
    /\ Len(stack[2].file) = 1
    /\ StrLess(stack[1].file[1], stack[2].file[1])
    /\ StrLess(stack[2].file[1], stack[1].file[2])

\* the first input came with a wavelet tree and the later ones without
FirstRemapped(st) ==
    /\ st # << >>
    /\ \A i \in 1..Len(st) : st[i].remap.some <=> i = 1

\* the mapped dictionary an input with a wavelet tree was before the merge
Prior(entry) ==
    MappedPfcDictFromParts(entry.file,
        WaveletTreeFromParts(entry.remap.bits, Log2Ceil(PfcLen(entry.file))))

\* m is a mapped dictionary: its strings are in order, each once, and its
\* wavelet tree holds every id below its length once
IsMappedDict(m) ==
    /\ \A i, j \in 1..Len(m.inner) : i < j => StrLess(m.inner[i], m.inner[j])
    /\ Len(m.id_wtree.entries) = Len(m.inner)
    /\ \A ix \in 0..(Len(m.inner) - 1) :
          \E k \in 1..Len(m.inner) : m.id_wtree.entries[k] = ix

\* m answers get and id as the mapped dictionary before did, for its ids
\* and its strings
KeepsIds(m, before) ==
    /\ \A ix \in 0..(MappedLen(before) - 1) :
          MappedGet(m, ix) = MappedGet(before, ix)
    /\ \A s \in StringsOf(before.inner) : MappedId(m, s) = MappedId(before, s)

\* id is the inverse of get on every id of m
IdInvertsGet(m) ==
    \A ix \in 0..(MappedLen(m) - 1) :
        /\ MappedGet(m, ix).res = "Ok"
        /\ MappedId(m, MappedGet(m, ix).val) = SomeId(ix)

\* C18: after a merge of a stack whose first input is a mapped dictionary
\* given with its wavelet tree and whose later inputs are plain dictionaries,
\* all with pairwise disjoint strings, every string of the first input has the
\* id it had before, the strings of a later input i have the ids offset_i +
\* position, and id is the inverse of get.
C18_MappedFirstKeepsIds ==
    (/\ FirstRemapped(stack)
     /\ IsMappedDict(Prior(stack[1]))
     /\ DisjointFrom(stack, 1)) =>
        /\ KeepsIds(merged, Prior(stack[1]))
        /\ AtOffsets(merged, stack, 2)
        /\ IdInvertsGet(merged)

\* a mapped dictionary whose ids are not in the order of its strings was
\* merged with a plain dictionary whose string goes before one of its own
C18_Witness ==
    /\ Len(stack) = 2
    /\ FirstRemapped(stack)
    /\ IsMappedDict(Prior(stack[1]))
    /\ DisjointFrom(stack, 1)
    /\ stack[1].remap.bits = << 1, 0 >>
    /\ Len(stack[2].file) = 1
    /\ StrLess(stack[2].file[1], stack[1].file[2])

\* the inputs of the stack that hold the string s
Occurrences(st, s) == { i \in 1..Len(st) : s \in StringsOf(st[i].file) }

\* how many entries of the dictionary are the string s
CountIn(dict, s) == Cardinality({ k \in 1..Len(dict) : dict[k] = s })

\* the id the stream of input i carries for the string s
CarriedId(st, i, s) ==
    LET stream == Streams(st)[i]
    IN  stream[CHOOSE k \in 1..Len(stream) : stream[k][2] = s][1]

\* the lowest of a set of input indexes
Lowest(is) == CHOOSE i \in is : \A j \in is : i <= j

\* the string s of several inputs is in m once
Collapsed(m, s) == CountIn(m.inner, s) = 1

\* the string s of several inputs has in m the id its first input carried
IdOfLowest(m, st, s) ==
    MappedId(m, s) = SomeId(CarriedId(st, Lowest(Occurrences(st, s)), s))

\* C19: a string that is in more than one input of the merge is in the
\* merged dictionary exactly once, and the id recorded for it is the one it
\* carried in the input of the lowest index.
C19_DuplicatesCollapse ==
    \A s \in Strings :
        Cardinality(Occurrences(stack, s)) > 1 =>
            Collapsed(merged, s) /\ IdOfLowest(merged, stack, s)

(***************************************************************************)
(* Moving the cursor of a handle.                                          *)
(***************************************************************************)
\* seek_previous has answered s: the cursor is on the type byte of frame fr
OnTypeByte(s, fr) == s.res = "Ok" /\ s.pos = fr.start

\* C21: seek_previous called with the cursor on the end of a frame leaves the
\* cursor, and the new_pos it returns, on the offset of that frame's type
\* byte: the cursor moves back by exactly one frame and never further than
\* the start of that frame.
C21_SeekPreviousOneFrame ==
    WholeFrames(file) =>
        \A i \in 1..Len(Frames(file)) :
            OnTypeByte(SeekPrevious(file, Frames(file)[i].end), Frames(file)[i])

\* a peek started with the cursor on from and answered a: the cursor is on
\* from again if it answered a record or, when errors count, an error that
\* comes with the handle
PeekKeeps(from, a, errors) ==
    /\ (a.res = "Ok" /\ a.rec.some) => a.pos = from
    /\ (errors /\ a.res = "Err" /\ a.handle) => a.pos = from

\* every peek_record and peek_previous on the file f keeps the cursor
PeeksKeep(f) ==
    \A pos \in 0..Len(f) :
        /\ PeekKeeps(pos, PeekRecord(f, pos), TRUE)
        /\ PeekKeeps(pos, PeekPrevious(f, pos), FALSE)

\* C22: whenever peek_record or peek_previous returns a record, the cursor of
\* the handle is where it was before the call; and when peek_record fails
\* with a frame error and returns the handle, the cursor is back on the
\* offset the call started from.  Checked of the call just made on the
\* handle and, for a file just opened, of a peek from every offset.
C22_PeekKeepsCursor ==
    /\ lastRead.op = "peek_record" =>
          cursor = lastRead.ans.pos /\ PeekKeeps(lastRead.from, lastRead.ans, TRUE)
    /\ lastRead.op = "peek_previous" =>
          cursor = lastRead.ans.pos /\ PeekKeeps(lastRead.from, lastRead.ans, FALSE)
    /\ lastRead.op = "open" => PeeksKeep(file)

\* peek_record returned a record from a cursor before the end of the file,
\* which next_record alone would have left on the end
C22_Witness ==
    /\ lastRead.op = "peek_record"
    /\ lastRead.ans.res = "Ok"
    /\ lastRead.ans.rec.some
    /\ cursor = lastRead.from
    /\ NextRecord(file, lastRead.from).pos # lastRead.from

\* a call started with the cursor on from and answered a: if it failed and
\* the error came with the handle, the cursor is on from
FailKeeps(from, a) == (a.res = "Err" /\ a.handle) => a.pos = from

\* C23: whenever seek_previous, peek_previous or previous fails and returns
\* the error together with the handle, the cursor of the handle is on the
\* offset it was on before the call, the IncompleteRecord of a length field
\* larger than the bytes before it and the InvalidRecordLength of
\* peek_previous included.
C23_FailureKeepsCursor ==
    lastRead.op \in {"seek_previous", "peek_previous", "previous"} =>
        cursor = lastRead.ans.pos /\ FailKeeps(lastRead.from, lastRead.ans)

\* how many calls a counting visitor told to stop at call k gets on a file of
\* n frames: one per frame and one with None, unless it stops before
CallsWanted(n, k) == IF k \in 1..n THEN k ELSE n + 1

\* call j of the visitor was given the frame j-th from the end of fs, or
\* None after the last
CalledWith(call, fs, j) ==
    IF j <= Len(fs)
    THEN call.some /\ SameRecord(fs[Len(fs) + 1 - j].rec, RecordOf(call.data))
    ELSE ~call.some

\* the walk over the frames fs with a visitor that stops at call k answered a
WalkedAll(a, fs, k) ==
    /\ a.res = "Ok"
    /\ Len(a.acc.calls) = CallsWanted(Len(fs), k)
    /\ \A j \in 1..Len(a.acc.calls) : CalledWith(a.acc.calls[j], fs, j)
    /\ a.some = (k \in 1..(Len(fs) + 1))
    /\ a.some => a.val = k
    /\ a.pos = IF k \in 1..Len(fs) THEN fs[Len(fs) + 1 - k].start ELSE 0

\* C24: walk_backwards started on the end of a file of n valid frames with a
\* visitor that always returns None ends after calling the visitor once per
\* frame, last frame first, and once more with None, the cursor on offset 0;
\* with a visitor that returns Some(t) at its k-th call it ends after exactly
\* k calls, yields t and leaves the cursor on the start of the k-th frame from
\* the end.
C24_WalkVisitsEachFrame ==
    (/\ lastRead.op = "walk_backwards"
     /\ lastRead.from = Len(file)
     /\ WholeFrames(file)) =>
        WalkedAll(lastRead.ans, Frames(file), lastRead.arg)

(***************************************************************************)
(* The decoder fed in chunks.                                              *)
(***************************************************************************)
\* what a decode call answered, as results keeps it
Answered(d) == [res |-> d.res, err |-> d.err, val |-> d.val]

RECURSIVE DecodeAll(_, _)
\* the answers of decode called again and again on the whole of bytes, up to
\* the first that is no record
DecodeAll(st, bytes) ==
    LET d == Decode(st, bytes)
    IN  IF d.res = "None" THEN << >>
        ELSE IF d.res = "Some" THEN << Answered(d) >> \o DecodeAll(d.st, d.rest)
        ELSE << Answered(d) >>

\* the answers rs up to the first that is no record
UpToFirstError(rs) ==
    IF \E i \in 1..Len(rs) : rs[i].res # "Some"
    THEN SubSeq(rs, 1, CHOOSE i \in 1..Len(rs) :
                          rs[i].res # "Some" /\ \A j \in 1..(i - 1) : rs[j].res = "Some")
    ELSE rs

IsPrefix(s, w) == Len(s) <= Len(w) /\ SubSeq(w, 1, Len(s)) = s

\* every byte of the file has been handed over and decode has nothing more
\* to say
Drained ==
    /\ wire = << >>
    /\ UpToFirstError(results) # results
         \/ Panicked
         \/ Decode(decoder, buffer).res = "None"

RECURSIVE FrameBytes(_)
\* the bytes of the frames of the records rs: type byte, body, length, checksum
FrameBytes(rs) ==
    IF rs = << >> THEN 0 ELSE Len(rs[1].val) + 9 + FrameBytes(Tail(rs))

\* while no call has failed, the bytes taken from the buffer are those of the
\* frames emitted and those the decoder holds of the frame it is reading
ConsumesFrames ==
    UpToFirstError(results) = results /\ decoder.tag # "Invalid" =>
        Len(file) = Len(wire) + Len(buffer) + Len(decoder.buf) + Len(decoder.lenb)
                        + FrameBytes(results)

\* C25: however a byte sequence is split into the chunks successive decode
\* calls are given, one byte at a time included, the records emitted and the
\* first error, if any, are those of decode given the whole sequence at once,
\* and the decoder takes no byte beyond the end of a frame it emits.
C25_ChunkingIndependence ==
    /\ IsPrefix(UpToFirstError(results), DecodeAll(DecoderStart, file))
    /\ Drained => UpToFirstError(results) = DecodeAll(DecoderStart, file)
    /\ ConsumesFrames

\* a frame was emitted from a sequence handed over in chunks, and a chunk
\* ended inside an entry of the frame after it: the decoder waits with part
\* of the entry in the buffer
C25_Witness ==
    /\ Len(results) = 1
    /\ results[1].res = "Some"
    /\ decoder.tag = "LabelSetReadEntry"
    /\ buffer # << >>
    /\ wire # << >>

(***************************************************************************)
(* The order of the merge.                                                 *)
(***************************************************************************)
\* no string of q is less than the one before it
NonDecreasing(q) == \A k \in 1..(Len(q) - 1) : ~StrLess(q[k + 1], q[k])

\* every input file is a dictionary: its strings in order, each once
AllDicts(st) ==
    \A i \in 1..Len(st) : \A k \in 1..(Len(st[i].file) - 1) :
        StrLess(st[i].file[k], st[i].file[k + 1])

\* the strings of all inputs
AllStrings(st) == UNION { StringsOf(st[i].file) : i \in 1..Len(st) }

\* the ids collected for the entries of the string s, in the order collected
IdsCollected(fed, ixs, s) ==
    LET at == SelectSeq([k \in 1..Len(fed) |-> k], LAMBDA k : fed[k] = s)
    IN  [j \in 1..Len(at) |-> ixs[at[j]]]

\* the ids the inputs carry for the string s, by input index
IdsCarried(st, s) ==
    LET of == SelectSeq([i \in 1..Len(st) |-> i],
                        LAMBDA i : s \in StringsOf(st[i].file))
    IN  [j \in 1..Len(of) |-> CarriedId(st, of[j], s)]

\* C26: the merge feeds the builder strings in non-decreasing order; for
\* inputs with disjoint strings what it feeds is exactly the sorted union of
\* the inputs' strings, whatever the number of inputs and however their
\* contents interleave; and of inputs with equal heads the head of the one
\* with the lowest index is emitted first.
C26_MergeOrder ==
    AllDicts(stack) =>
        /\ NonDecreasing(merged.inner)
        /\ DisjointFrom(stack, 1) => merged.inner = DictOf(AllStrings(stack))
        /\ \A s \in AllStrings(stack) :
              IdsCollected(merged.inner, indexes, s) = IdsCarried(stack, s)

\* two inputs that share a string were merged, a string of the second coming
\* before one of the first
C26_Witness ==
    /\ Len(stack) = 2
    /\ AllDicts(stack)
    /\ Len(stack[1].file) = 2
    /\ Len(stack[2].file) = 1
    /\ stack[1].file[1] = stack[2].file[1]
    /\ Len(merged.inner) = 3
    /\ indexes = << 0, 2, 1 >>

(***************************************************************************)
(* C27.  Two sessions, each holding the exclusive lock for the life of its *)
(* handle, each call append_labelset with the same id on the same file: at *)
(* most one of the two calls answers true, and the file never holds two    *)
(* LabelSet records with the same id.                                      *)
(***************************************************************************)
SameIdCalls(s, t) ==
    /\ s # t
    /\ sessions[s].pc = "done"
    /\ sessions[t].pc = "done"
    /\ sessions[s].id = sessions[t].id

NoRepeatedId(ids) ==
    \A i, j \in 1..Len(ids) : ids[i] = ids[j] => i = j

C27_OneSessionWins ==
    /\ \A s, t \in Sessions :
           SameIdCalls(s, t) => ~(sessions[s].res = "true" /\ sessions[t].res = "true")
    /\ NoRepeatedId(LabelSetIds(file))

(***************************************************************************)
(* C28.  get_last_checkpoint and get_last_id are idempotent on a handle:   *)
(* called twice in succession with no write in between, either of them     *)
(* answers the same id both times, wherever the first call left the cursor.*)
(***************************************************************************)
SameId(a, b) == b.res = "Ok" /\ b.id = a.id

\* the query that has just answered an id is asked again on the handle
AskedAgain(op, again) ==
    (lastRead.op = op /\ lastRead.ans.res = "Ok") => SameId(lastRead.ans, again)

EntriesWritten(frame) == Len(FrameAt(frame).rec.entries)

DecoderAccepts(frame) == Decode(DecoderStart, frame).res = "Some"

C29_WrittenLabelSetsAccepted ==
    Appended("append_labelset") =>
        /\ EntriesWritten(lastOp.frame) \in 1..MaxLabelsPerRecord
        /\ DecoderAccepts(lastOp.frame)

(***************************************************************************)
(* C30.  For every stack with disjoint string sets, the stacks where an    *)
(* input that comes with a prior wavelet tree is not in slot 0 included,   *)
(* the ids collected in indexes are pairwise distinct and are exactly the  *)
(* ids below the total count, so that the wavelet tree built from them is  *)
(* a permutation.                                                          *)
(***************************************************************************)
\* every input that comes with a wavelet tree was a mapped dictionary
RemapsMapped(st) ==
    \A i \in 1..Len(st) : st[i].remap.some => IsMappedDict(Prior(st[i]))

TotalCount(st) == Offsets(Counts(st))[Len(st)] + Counts(st)[Len(st)]

\* ids holds every number below n once and nothing else
IsPermutation(ids, n) ==
    /\ Len(ids) = n
    /\ \A i, j \in 1..Len(ids) : ids[i] = ids[j] => i = j
    /\ \A i \in 1..Len(ids) : ids[i] \in 0..(n - 1)

C30_IndexesPermutation ==
    (/\ stack # << >>
     /\ AllDicts(stack)
     /\ RemapsMapped(stack)
     /\ DisjointFrom(stack, 1)) =>
        /\ IsPermutation(indexes, TotalCount(stack))
        /\ IsPermutation(merged.id_wtree.entries, TotalCount(stack))

(***************************************************************************)
(* C31.  next_record answers Ok(None) only when the cursor is on the end   *)
(* of the file at the time of the call; when a non-empty proper prefix of  *)
(* a frame follows the cursor (a lone type byte, a type byte and an entry  *)
(* count), it answers an error and not None.                               *)
(***************************************************************************)
\* bytes is the beginning of a frame, but not all of it and not nothing
PartOfFrame(bytes) ==
    \E p \in ChunkPieces :
        /\ 0 < Len(bytes)
        /\ Len(bytes) < Len(p)
        /\ Take(p, Len(bytes)) = bytes

AnsweredNone(a) == a.res = "Ok" /\ ~a.rec.some

C31_NoneOnlyAtEnd ==
    lastRead.op = "next_record" =>
        /\ AnsweredNone(lastRead.ans) => lastRead.from = Len(file)
        /\ PartOfFrame(Drop(file, lastRead.from)) => lastRead.ans.res = "Err"

(***************************************************************************)
(* C32.  The decoder never is in its Invalid state at the start of a       *)
(* decode call: after any sequence of decode calls, those that answered an *)
(* error included, a further decode call answers a result and does not     *)
(* panic.                                                                  *)
(***************************************************************************)
NoPanic == \A i \in 1..Len(results) : results[i].res # "Panic"

\* a further decode call on what the buffer holds answers a result
FurtherCallAnswers == Decode(decoder, buffer).res # "Panic"

C32_DecoderNeverInvalid ==
    /\ decoder.tag # "Invalid"
    /\ FurtherCallAnswers
    /\ NoPanic

=============================================================================
